---- MODULE Spec2Model ----
(***************************************************************************)
(* Peg solitaire on the 7x7 cross board: the Grid operations and the       *)
(* memoised depth-first GameTree::search of src/src/main.rs.               *)
(***************************************************************************)
EXTENDS Integers, Sequences, FiniteSets, TLC

VARIABLES
    grid,      \* Grid harness: the current snapshot (Grid.grid)
    prev,      \* Grid harness: the snapshot the last perform_action was called on
    last,      \* Grid harness: the Action of the last perform_action, <<>> before any
    status,    \* Grid harness: "ok", or "panic" once assert!(verify_action) failed
    moves,     \* Grid harness: number of perform_action calls so far
    root,      \* search: the snapshot of the GameTree search was started on
    termX,     \* search: target column
    termY,     \* search: target row
    memo,      \* search: the HashSet<Grid> passed by &mut through the recursion
    stack,     \* search: the activation records of the recursive calls, outermost first
    callee,    \* search: the GameTree a call is being entered on (pc = "call")
    ret,       \* search: the Option<GameTree> being returned (pc = "ret" / "done")
    pc,        \* search: "call", "loop", "ret", "deep", "done", "panic"; "idle" outside search runs
    expanded,  \* search: instrumentation, the snapshots whose valid_actions were generated, in order
    hits,      \* search: instrumentation, the number of calls that found their snapshot in memo
    first      \* two runs: what the first run returned and expanded, <<>> until a second run starts

vars == <<grid, prev, last, status, moves, root, termX, termY, memo, stack, callee, ret, pc, expanded, hits, first>>

gridVars == <<grid, prev, last, status, moves>>
searchVars == <<root, termX, termY, memo, stack, callee, ret, pc, expanded, hits, first>>

----------------------------------------------------------------------------
(* Bounds of the model *)

\* Grid harness: perform_action calls per run
MaxMoves == 2
\* play from the canonical board: legal moves per run
MaxDepth == 6
\* search on small boards: pegs on the initial snapshot
MaxPegs == 5
\* search from the canonical board: calls at this recursion depth are single steps
SplitDepth == 14

----------------------------------------------------------------------------
(* Tile, Direction, Action, Grid *)

\* the side of the board: [[Tile; 7]; 7]
N == 7

Blocked == "Blocked"
Filled == "Filled"
Empty == "Empty"
Tile == {Blocked, Filled, Empty}

Up == "Up"
Down == "Down"
Left == "Left"
Right == "Right"
Direction == {Up, Down, Left, Right}

Idx == 0 .. (N - 1)

\* struct Action { x, y, dir }
Action(x, y, dir) == [x |-> x, y |-> y, dir |-> dir]

\* every Action with in-range source coordinates
Actions == [x : Idx, y : Idx, dir : Direction]

\* the value of an index expression grid[x][y]; indexing outside the array panics
OutOfRange == "OutOfRange"
Read(g, x, y) == IF x \in Idx /\ y \in Idx THEN g[x][y] ELSE OutOfRange

\* Grid::new
Grid_newBlocked ==
    { <<0, 0>>, <<0, 1>>, <<1, 0>>, <<1, 1>>,
      <<5, 0>>, <<5, 1>>, <<6, 0>>, <<6, 1>>,
      <<0, 5>>, <<0, 6>>, <<1, 5>>, <<1, 6>>,
      <<5, 5>>, <<5, 6>>, <<6, 5>>, <<6, 6>> }

\* Grid::new without `grid[3][3] = Tile::Empty`: the cross stays full
Grid_new_no_hole ==
    [x \in Idx |-> [y \in Idx |->
        IF <<x, y>> \in Grid_newBlocked THEN Blocked ELSE Filled]]

\* Grid::new without `grid[6][6] = Tile::Blocked`
Grid_new_corner_missed ==
    [x \in Idx |-> [y \in Idx |->
        IF <<x, y>> \in Grid_newBlocked \ {<<6, 6>>} THEN Blocked
        ELSE IF x = 3 /\ y = 3 THEN Empty
        ELSE Filled]]

Grid_new ==
    [x \in Idx |-> [y \in Idx |->
        IF <<x, y>> \in Grid_newBlocked THEN Blocked
        ELSE IF x = 3 /\ y = 3 THEN Empty
        ELSE Filled]]

\* a direction of tile_actions without its test of the landing cell
direction_check_ignores_landing(g, bound, jx, jy, lx, ly) ==
    IF ~bound THEN [ok |-> FALSE, reads |-> {}]
    ELSE [ok |-> Read(g, jx, jy) = Filled, reads |-> {<<jx, jy>>}]

\* One direction of tile_actions: `bound && grid[jx][jy] == Filled && grid[lx][ly] == Empty`,
\* evaluated left to right with short circuit. ok: the value; reads: the cells indexed.
direction_check(g, bound, jx, jy, lx, ly) ==
    IF ~bound THEN [ok |-> FALSE, reads |-> {}]
    ELSE IF Read(g, jx, jy) # Filled THEN [ok |-> FALSE, reads |-> {<<jx, jy>>}]
    ELSE [ok |-> Read(g, lx, ly) = Empty, reads |-> {<<jx, jy>>, <<lx, ly>>}]

\* tile_actions without its test of the source cell
tile_actions_eval_any_source(g, x, y) ==
    LET l == direction_check(g, x > 1, x - 1, y, x - 2, y)
        r == direction_check(g, x < 5, x + 1, y, x + 2, y)
        u == direction_check(g, y > 1, x, y - 1, x, y - 2)
        d == direction_check(g, y < 5, x, y + 1, x, y + 2)
    IN  [actions |->
            (IF l.ok THEN <<Action(x, y, Left)>> ELSE <<>>)
            \o (IF r.ok THEN <<Action(x, y, Right)>> ELSE <<>>)
            \o (IF u.ok THEN <<Action(x, y, Up)>> ELSE <<>>)
            \o (IF d.ok THEN <<Action(x, y, Down)>> ELSE <<>>),
         reads |-> {<<x, y>>} \cup l.reads \cup r.reads \cup u.reads \cup d.reads]

\* Grid::tile_actions with the cells it indexes: actions is the returned Vec
tile_actions_eval(g, x, y) ==
    IF Read(g, x, y) # Filled THEN [actions |-> <<>>, reads |-> {<<x, y>>}]
    ELSE
        LET l == direction_check(g, x > 1, x - 1, y, x - 2, y)
            r == direction_check(g, x < 5, x + 1, y, x + 2, y)
            u == direction_check(g, y > 1, x, y - 1, x, y - 2)
            d == direction_check(g, y < 5, x, y + 1, x, y + 2)
        IN  [actions |->
                (IF l.ok THEN <<Action(x, y, Left)>> ELSE <<>>)
                \o (IF r.ok THEN <<Action(x, y, Right)>> ELSE <<>>)
                \o (IF u.ok THEN <<Action(x, y, Up)>> ELSE <<>>)
                \o (IF d.ok THEN <<Action(x, y, Down)>> ELSE <<>>),
             reads |-> {<<x, y>>} \cup l.reads \cup r.reads \cup u.reads \cup d.reads]

tile_actions(g, x, y) == tile_actions_eval(g, x, y).actions

\* Grid::valid_actions, the inner loop: for y in 0..7 { append tile_actions(x, y) }
RECURSIVE valid_actions_y(_, _, _)
valid_actions_y(g, x, y) ==
    IF y = N THEN <<>>
    ELSE tile_actions(g, x, y) \o valid_actions_y(g, x, y + 1)

\* Grid::valid_actions, the outer loop: for x in 0..7 { ... }
RECURSIVE valid_actions_x(_, _)
valid_actions_x(g, x) ==
    IF x = N THEN <<>>
    ELSE valid_actions_y(g, x, 0) \o valid_actions_x(g, x + 1)

valid_actions(g) == valid_actions_x(g, 0)

\* an arm of verify_action without its test of the jumped cell
verify_arm_skips_jumped(g, outside, jx, jy, lx, ly) ==
    IF outside THEN [result |-> FALSE, reads |-> {}]
    ELSE IF Read(g, lx, ly) # Empty THEN [result |-> FALSE, reads |-> {<<lx, ly>>}]
    ELSE [result |-> TRUE, reads |-> {<<lx, ly>>}]

\* One arm of verify_action: the bound test, then the jumped cell, then the landing cell,
\* each returning false at once. result: the value; reads: the cells indexed.
verify_arm(g, outside, jx, jy, lx, ly) ==
    IF outside THEN [result |-> FALSE, reads |-> {}]
    ELSE IF Read(g, jx, jy) # Filled THEN [result |-> FALSE, reads |-> {<<jx, jy>>}]
    ELSE IF Read(g, lx, ly) # Empty THEN [result |-> FALSE, reads |-> {<<jx, jy>>, <<lx, ly>>}]
    ELSE [result |-> TRUE, reads |-> {<<jx, jy>>, <<lx, ly>>}]

\* verify_action with the bound of Up off by one
verify_action_eval_up_bound(g, a) ==
    CASE a.dir = Up -> verify_arm(g, a.y < 1, a.x, a.y - 1, a.x, a.y - 2)
      [] a.dir = Down -> verify_arm(g, a.y > 4, a.x, a.y + 1, a.x, a.y + 2)
      [] a.dir = Left -> verify_arm(g, a.x < 2, a.x - 1, a.y, a.x - 2, a.y)
      [] a.dir = Right -> verify_arm(g, a.x > 4, a.x + 1, a.y, a.x + 2, a.y)

\* Grid::verify_action with the cells it indexes
verify_action_eval(g, a) ==
    CASE a.dir = Up -> verify_arm(g, a.y < 2, a.x, a.y - 1, a.x, a.y - 2)
      [] a.dir = Down -> verify_arm(g, a.y > 4, a.x, a.y + 1, a.x, a.y + 2)
      [] a.dir = Left -> verify_arm(g, a.x < 2, a.x - 1, a.y, a.x - 2, a.y)
      [] a.dir = Right -> verify_arm(g, a.x > 4, a.x + 1, a.y, a.x + 2, a.y)

verify_action(g, a) == verify_action_eval(g, a).result

\* perform_action that leaves the jumped peg on the board
perform_action_keeps_jumped(g, a) ==
    LET g0 == [g EXCEPT ![a.x][a.y] = Empty]
    IN  CASE a.dir = Up -> [g0 EXCEPT ![a.x][a.y - 2] = Filled]
          [] a.dir = Down -> [g0 EXCEPT ![a.x][a.y + 2] = Filled]
          [] a.dir = Left -> [g0 EXCEPT ![a.x - 2][a.y] = Filled]
          [] a.dir = Right -> [g0 EXCEPT ![a.x + 2][a.y] = Filled]

\* Grid::perform_action after its assert: the three writes to the copy of the grid
perform_action(g, a) ==
    LET g0 == [g EXCEPT ![a.x][a.y] = Empty]
    IN  CASE a.dir = Up -> [g0 EXCEPT ![a.x][a.y - 1] = Empty, ![a.x][a.y - 2] = Filled]
          [] a.dir = Down -> [g0 EXCEPT ![a.x][a.y + 1] = Empty, ![a.x][a.y + 2] = Filled]
          [] a.dir = Left -> [g0 EXCEPT ![a.x - 1][a.y] = Empty, ![a.x - 2][a.y] = Filled]
          [] a.dir = Right -> [g0 EXCEPT ![a.x + 1][a.y] = Empty, ![a.x + 2][a.y] = Filled]

\* Grid::filled_count
filled_count(g) == Cardinality({c \in Idx \X Idx : g[c[1]][c[2]] = Filled})

----------------------------------------------------------------------------
(* Snapshots the runs start from *)

\* a cross board with pegs on the given cells and every other playable cell Empty
Board(pegs) ==
    [x \in Idx |-> [y \in Idx |->
        IF <<x, y>> \in Grid_newBlocked THEN Blocked
        ELSE IF <<x, y>> \in pegs THEN Filled
        ELSE Empty]]

\* the upper arm of the cross and the row below it
Region == (2 .. 4) \X (0 .. 2)

SmallBoards == {Board(p) : p \in {s \in SUBSET Region : Cardinality(s) <= MaxPegs}}

Targets == {<<3, 2>>, <<3, 3>>}

Range(seq) == {seq[i] : i \in DOMAIN seq}

----------------------------------------------------------------------------
(* The Grid harness: perform_action called on a snapshot *)

GridInit(boards) ==
    /\ grid \in boards
    /\ prev = grid
    /\ last = <<>>
    /\ status = "ok"
    /\ moves = 0

SearchIdle ==
    /\ root = <<>>
    /\ termX = 0
    /\ termY = 0
    /\ memo = {}
    /\ stack = <<>>
    /\ callee = <<>>
    /\ ret = <<>>
    /\ pc = "idle"
    /\ expanded = <<>>
    /\ hits = 0
    /\ first = <<>>

\* one call self.perform_action(action): the assert, then the new Grid
PerformAction(a) ==
    /\ status = "ok"
    /\ IF verify_action(grid, a)
       THEN /\ grid' = perform_action(grid, a)
            /\ prev' = grid
            /\ last' = a
            /\ moves' = moves + 1
            /\ UNCHANGED status
       ELSE /\ status' = "panic"
            /\ UNCHANGED <<grid, prev, last, moves>>
    /\ UNCHANGED searchVars

\* perform_action called with any Action whose source is on the board
Apply ==
    /\ moves < MaxMoves
    /\ \E a \in Actions : PerformAction(a)

\* perform_action called the way search calls it: on an element of valid_actions()
Play ==
    /\ moves < MaxDepth
    /\ \E i \in DOMAIN valid_actions(grid) : PerformAction(valid_actions(grid)[i])

Init == GridInit(SmallBoards \cup {Grid_new}) /\ SearchIdle
Next == Apply
Spec == Init /\ [][Next]_vars

InitPlay == GridInit({Grid_new}) /\ SearchIdle
NextPlay == Play
SpecPlay == InitPlay /\ [][NextPlay]_vars

----------------------------------------------------------------------------
(* Properties of the Grid operations *)

\* the offset of one step in a direction
StepOf(dir) ==
    CASE dir = Up -> <<0, -1>>
      [] dir = Down -> <<0, 1>>
      [] dir = Left -> <<-1, 0>>
      [] dir = Right -> <<1, 0>>

Source(a) == <<a.x, a.y>>
Jumped(a) == <<a.x + StepOf(a.dir)[1], a.y + StepOf(a.dir)[2]>>
Landing(a) == <<a.x + 2 * StepOf(a.dir)[1], a.y + 2 * StepOf(a.dir)[2]>>
Cells == Idx \X Idx
At(g, c) == g[c[1]][c[2]]

\* the move rule of the data model: source Filled, jumped Filled, landing in range and Empty
Legal(g, a) ==
    /\ At(g, Source(a)) = Filled
    /\ Jumped(a) \in Cells /\ At(g, Jumped(a)) = Filled
    /\ Landing(a) \in Cells /\ At(g, Landing(a)) = Empty

Applied == status = "ok" /\ last # <<>>

\* C5: on every snapshot, for every move with in-range source, verify_action(move)
\* is true iff the move is an element of valid_actions()
C5_VerifyIffEnumerated ==
    LET enumerated == Range(valid_actions(grid))
    IN  \A a \in Actions : verify_action(grid, a) <=> a \in enumerated

\* C6: after every perform_action that passed its assert, the filled count is the
\* filled count of the original snapshot minus one
C6_FilledCountMinusOne ==
    Applied => filled_count(grid) = filled_count(prev) - 1

\* C7: in every snapshot reached from Grid::new() by legal moves, the Blocked cells are
\* exactly the sixteen corner cells of the initial board
C7_BlockedFixed ==
    {c \in Cells : At(grid, c) = Blocked} = {0, 1, 5, 6} \X {0, 1, 5, 6}

\* a legal move has just taken a peg away from a cell that touches a corner block
C7_Witness ==
    /\ moves = MaxDepth
    /\ Applied /\ Legal(prev, last)
    /\ \E c \in Cells :
          /\ At(Grid_new, c) = Blocked
          /\ (c[1] - last.x) * (c[1] - last.x) + (c[2] - last.y) * (c[2] - last.y) = 1

\* C8: after perform_action of a legal move, source and jumped are Empty, landing is
\* Filled, and every other cell is as in the original snapshot
C8_FrameEffect ==
    (Applied /\ Legal(prev, last)) =>
        /\ At(grid, Source(last)) = Empty
        /\ At(grid, Jumped(last)) = Empty
        /\ At(grid, Landing(last)) = Filled
        /\ \A c \in Cells \ {Source(last), Jumped(last), Landing(last)} : At(grid, c) = At(prev, c)

C8_Witness ==
    /\ Applied /\ Legal(prev, last)
    /\ moves = MaxMoves
    /\ \E c \in Cells \ {Source(last), Jumped(last), Landing(last)} : At(grid, c) = Filled

\* C10: a move whose landing cell is outside the 7x7 range fails verify_action and is
\* not in valid_actions(), and neither verify_action nor tile_actions indexes a cell
\* outside the range
C10_OutOfRangeRejected ==
    /\ LET enumerated == Range(valid_actions(grid))
       IN  \A a \in Actions :
              Landing(a) \notin Cells => ~verify_action(grid, a) /\ a \notin enumerated
    /\ \A a \in Actions : verify_action_eval(grid, a).reads \subseteq Cells
    /\ \A c \in Cells : tile_actions_eval(grid, c[1], c[2]).reads \subseteq Cells

\* a move off the edge whose source and jumped cells are both Filled: only the bound
\* test stands between it and the out-of-range landing cell
C10_Witness ==
    \E a \in Actions :
        /\ Landing(a) \notin Cells
        /\ Jumped(a) \in Cells
        /\ At(grid, Source(a)) = Filled /\ At(grid, Jumped(a)) = Filled
        /\ moves > 0

\* C11: valid_actions() holds exactly the legal moves of the snapshot, each once: a
\* move is in it iff its source is Filled, the cell one step on is Filled and the cell
\* two steps on is in range and Empty; tile_actions is empty on a cell that is not Filled
C11_ValidActionsExact ==
    LET actions == valid_actions(grid)
    IN  /\ Range(actions) = {a \in Actions : Legal(grid, a)}
        /\ \A i, j \in DOMAIN actions : i # j => actions[i] # actions[j]
        /\ \A c \in Cells : At(grid, c) # Filled => tile_actions(grid, c[1], c[2]) = <<>>

\* after a move, several moves are legal, and beside them there is a cell that is not
\* Filled with a peg next to it and an Empty cell behind the peg
C11_Witness ==
    /\ moves > 0
    /\ Len(valid_actions(grid)) >= 2
    /\ \E a \in Actions :
          /\ At(grid, Source(a)) # Filled
          /\ Jumped(a) \in Cells /\ At(grid, Jumped(a)) = Filled
          /\ Landing(a) \in Cells /\ At(grid, Landing(a)) = Empty

\* C14: Grid::new() returns the canonical starting snapshot: the sixteen cells of the
\* four 2x2 corner blocks are Blocked, the centre (3,3) is Empty and the remaining 32
\* cells are Filled
C14_CanonicalStart ==
    moves = 0 =>
        /\ \A c \in Cells :
              At(grid, c) = IF c[1] \in {0, 1, 5, 6} /\ c[2] \in {0, 1, 5, 6} THEN Blocked
                            ELSE IF c = <<3, 3>> THEN Empty
                            ELSE Filled
        /\ Cardinality({c \in Cells : At(grid, c) = Blocked}) = 16
        /\ Cardinality({c \in Cells : At(grid, c) = Empty}) = 1
        /\ filled_count(grid) = 32

\* the snapshot Grid::new() returned, before any move
C14_Witness ==
    /\ moves = 0 /\ last = <<>> /\ status = "ok"
    /\ grid = Grid_new
    /\ Len(valid_actions(grid)) = 4

Opposite(dir) ==
    CASE dir = Up -> Down
      [] dir = Down -> Up
      [] dir = Left -> Right
      [] dir = Right -> Left

\* the geometric inverse of a move: from its landing cell, in the opposite direction
Inverse(a) == Action(Landing(a)[1], Landing(a)[2], Opposite(a.dir))

\* C13: in the snapshot a legal move leads to, the inverse move (source = the landing
\* cell, opposite direction) fails verify_action because the jumped cell is now Empty,
\* and its three writes would not give the original snapshot back
C13_NotSelfInverse ==
    (Applied /\ Legal(prev, last)) =>
        /\ At(grid, Jumped(Inverse(last))) = Empty
        /\ ~verify_action(grid, Inverse(last))
        /\ perform_action(grid, Inverse(last)) # prev

\* a legal move was applied; the inverse move's own source is Filled and its landing
\* cell, the original source, is in range and Empty: only the jumped cell is in its way
C13_Witness ==
    /\ Applied /\ Legal(prev, last)
    /\ Jumped(Inverse(last)) = Jumped(last)
    /\ Landing(Inverse(last)) = Source(last)
    /\ At(grid, Source(Inverse(last))) = Filled
    /\ At(grid, Landing(Inverse(last))) = Empty
    /\ moves = 1

----------------------------------------------------------------------------
(* GameTree and GameTree::search *)

\* Option<GameTree>
None == <<>>
Some(tree) == <<tree>>

\* HashMap::new() and HashMap::insert
HashMap_new == <<>>
HashMap_insert(map, key, value) == (key :> value) @@ map

\* GameTree::new
GameTree_new(state, history) ==
    [state |-> state, next_moves |-> HashMap_new, history |-> history]

\* GameTree::default
GameTree_default == GameTree_new(Grid_new, <<>>)

\* #[derive(PartialEq, Eq, Hash)] on Tile and Grid: a HashSet<Grid> holds a snapshot
\* by its contents, the 49 tiles in array order. Grid_key is those contents written
\* with one base-3 digit per tile (the discriminant of the Tile), one number per
\* grid[x]; two snapshots have the same key exactly when every tile matches.
tile_digit(t) ==
    CASE t = Blocked -> 0
      [] t = Filled -> 1
      [] t = Empty -> 2

RECURSIVE column_digits(_, _)
column_digits(column, y) ==
    IF y = N THEN 0 ELSE tile_digit(column[y]) + 3 * column_digits(column, y + 1)

Grid_key(g) == [i \in 1 .. N |-> column_digits(g[i - 1], 0)]

\* a memo test that never finds the snapshot
memo_contains_never(m, state) == FALSE

\* a memo test that asks whether the set holds anything at all
memo_contains_nonempty(m, state) == m # {}

\* memo.contains(&self.state)
memo_contains(m, state) == Grid_key(state) \in m

\* memo.insert(self.state.clone())
memo_insert(m, state) == m \cup {Grid_key(state)}

\* the child built on the parent's history, the action not pushed
child_history_not_pushed(self, action) ==
    GameTree_new(perform_action(self.state, action), self.history)

\* the GameTree a loop iteration calls search on: new_state and new_history
child(self, action) ==
    GameTree_new(perform_action(self.state, action), Append(self.history, action))

\* the test with the filled count compared to zero
is_win_no_peg(tree, tx, ty) ==
    /\ DOMAIN tree.next_moves = {}
    /\ filled_count(tree.state) < 1
    /\ Read(tree.state, tx, ty) = Filled

\* the test with is_empty() negated
is_win_has_children(tree, tx, ty) ==
    /\ DOMAIN tree.next_moves # {}
    /\ filled_count(tree.state) <= 1
    /\ Read(tree.state, tx, ty) = Filled

\* the test under Some(tree) that makes search return the tree at once
is_win(tree, tx, ty) ==
    /\ DOMAIN tree.next_moves = {}
    /\ filled_count(tree.state) <= 1
    /\ Read(tree.state, tx, ty) = Filled

Top == stack[Len(stack)]
Pop == SubSeq(stack, 1, Len(stack) - 1)

\* search is entered on callee: the memo test, then the insert and valid_actions()
Call ==
    /\ pc = "call"
    /\ IF memo_contains(memo, callee.state)
       THEN /\ ret' = None
            /\ pc' = "ret"
            /\ hits' = hits + 1
            /\ UNCHANGED <<memo, stack, expanded>>
       ELSE /\ memo' = memo_insert(memo, callee.state)
            /\ stack' = Append(stack,
                   [self |-> callee,
                    actions |-> valid_actions(callee.state),
                    action |-> <<>>,
                    next_moves |-> HashMap_new])
            /\ expanded' = Append(expanded, callee.state)
            /\ pc' = "loop"
            /\ UNCHANGED <<ret, hits>>
    /\ callee' = <<>>
    /\ UNCHANGED <<root, termX, termY, first>>
    /\ UNCHANGED gridVars

\* the head of `for action in actions`: the next action is performed and search is
\* called on the child, or the loop is over and the call returns its own node
Loop ==
    /\ pc = "loop"
    /\ IF Top.actions = <<>>
       THEN /\ ret' = Some([state |-> Top.self.state,
                            next_moves |-> Top.next_moves,
                            history |-> Top.self.history])
            /\ stack' = Pop
            /\ pc' = "ret"
            /\ UNCHANGED callee
       ELSE LET action == Head(Top.actions)
            IN  IF verify_action(Top.self.state, action)
                THEN /\ callee' = child(Top.self, action)
                     /\ stack' = [stack EXCEPT ![Len(stack)].actions = Tail(@),
                                               ![Len(stack)].action = action]
                     /\ pc' = "call"
                     /\ UNCHANGED ret
                ELSE /\ pc' = "panic"
                     /\ UNCHANGED <<callee, stack, ret>>
    /\ UNCHANGED <<root, termX, termY, memo, expanded, hits, first>>
    /\ UNCHANGED gridVars

\* a call has returned ret: to the caller of the outermost search, or into the match
\* of the loop iteration that made the call
Return ==
    /\ pc = "ret"
    /\ IF stack = <<>>
       THEN /\ pc' = "done"
            /\ UNCHANGED <<stack, ret>>
       ELSE IF ret # None /\ is_win(ret[1], termX, termY)
            THEN /\ stack' = Pop
                 /\ pc' = "ret"
                 /\ UNCHANGED ret
            ELSE /\ stack' = [stack EXCEPT ![Len(stack)].next_moves =
                                  HashMap_insert(@, Top.action, ret)]
                 /\ pc' = "loop"
                 /\ ret' = None
    /\ UNCHANGED <<root, termX, termY, memo, callee, expanded, hits, first>>
    /\ UNCHANGED gridVars

GridIdle ==
    /\ grid = <<>>
    /\ prev = <<>>
    /\ last = <<>>
    /\ status = "ok"
    /\ moves = 0

\* self.search(&mut HashSet::new(), termX, termY) on GameTree::new(board, Vec::new())
SearchInit(boards, targets) ==
    /\ root \in boards
    /\ \E t \in targets : termX = t[1] /\ termY = t[2]
    /\ memo = {}
    /\ stack = <<>>
    /\ callee = GameTree_new(root, <<>>)
    /\ ret = None
    /\ pc = "call"
    /\ expanded = <<>>
    /\ hits = 0
    /\ first = <<>>

NextSearch == Call \/ Loop \/ Return

InitSearch == SearchInit(SmallBoards, Targets) /\ GridIdle
SpecSearch == InitSearch /\ [][NextSearch]_vars

\* search is a sequential program: while a step of it is possible, a step is taken
SpecSearchFair == InitSearch /\ [][NextSearch]_vars /\ WF_vars(NextSearch)

\* the second run is handed the set the first run filled
own_memo_shared(m) == m

\* &mut HashSet::new() at a second call of search: the call's own set, empty whatever
\* the first run left in m
own_memo(m) == {}

\* a finished run is followed by a second, independent one: search is called again on
\* a GameTree of the same snapshot with the same target
Again ==
    /\ pc = "done"
    /\ first = <<>>
    /\ first' = [ret |-> ret, expanded |-> expanded]
    /\ memo' = own_memo(memo)
    /\ callee' = GameTree_new(root, <<>>)
    /\ ret' = None
    /\ pc' = "call"
    /\ expanded' = <<>>
    /\ hits' = 0
    /\ UNCHANGED <<root, termX, termY, stack>>
    /\ UNCHANGED gridVars

NextTwice == Call \/ Loop \/ Return \/ Again

SpecTwice == InitSearch /\ [][NextTwice]_vars

----------------------------------------------------------------------------
(* GameTree::search as the recursive function it is: one call, run to its return *)

\* search returns result and leaves memo behind in the caller's HashSet; panic: the
\* assert of perform_action failed and the program aborted
RECURSIVE search(_, _, _, _)
RECURSIVE search_loop(_, _, _, _, _, _)
RECURSIVE search_match(_, _, _, _, _, _)

search(self, m, tx, ty) ==
    IF memo_contains(m, self.state)
    THEN [result |-> None, memo |-> m, panic |-> FALSE]
    ELSE search_loop(self, valid_actions(self.state), HashMap_new,
                     memo_insert(m, self.state), tx, ty)

\* the match on what the call of the current iteration returned (r), then the
\* iterations after it
search_match(self, actions, next_moves, r, tx, ty) ==
    CASE r.panic -> r
      [] r.result # None /\ is_win(r.result[1], tx, ty) -> r
      [] OTHER ->
            search_loop(self, Tail(actions),
                        HashMap_insert(next_moves, Head(actions), r.result),
                        r.memo, tx, ty)

\* the iterations of `for action in actions` that are still to run, then the final Some
search_loop(self, actions, next_moves, m, tx, ty) ==
    CASE actions = <<>> ->
            [result |-> Some([state |-> self.state,
                              next_moves |-> next_moves,
                              history |-> self.history]),
             memo |-> m,
             panic |-> FALSE]
      [] ~verify_action(self.state, Head(actions)) ->
            [result |-> None, memo |-> m, panic |-> TRUE]
      [] OTHER ->
            search_match(self, actions, next_moves,
                         search(child(self, Head(actions)), m, tx, ty), tx, ty)

\* search is entered on callee at recursion depth SplitDepth or more, and the whole
\* call is taken at once: ret holds what search computed, its result together with the
\* memo it leaves behind
CallDeep ==
    /\ pc = "call"
    /\ Len(callee.history) >= SplitDepth
    /\ ret' = search(callee, memo, termX, termY)
    /\ pc' = "deep"
    /\ callee' = <<>>
    /\ UNCHANGED <<root, termX, termY, memo, stack, expanded, hits, first>>
    /\ UNCHANGED gridVars

\* the call taken at once returns: memo is what it left behind and ret its result.
\* expanded and hits count the calls that are steps of their own only.
DeepReturn ==
    /\ pc = "deep"
    /\ memo' = ret.memo
    /\ ret' = ret.result
    /\ pc' = IF ret.panic THEN "panic" ELSE "ret"
    /\ UNCHANGED <<root, termX, termY, stack, callee, expanded, hits, first>>
    /\ UNCHANGED gridVars

CallNear ==
    /\ pc = "call"
    /\ Len(callee.history) < SplitDepth
    /\ Call

NextSolve == CallNear \/ CallDeep \/ DeepReturn \/ Loop \/ Return

\* the small boards with each target, and main's GameTree::default().search(_, 3, 3)
InitSolve ==
    /\ \E in \in (SmallBoards \X Targets) \cup {<<GameTree_default.state, <<3, 3>>>>} :
          SearchInit({in[1]}, {in[2]})
    /\ GridIdle

SpecSolve == InitSolve /\ [][NextSolve]_vars

----------------------------------------------------------------------------
(* Properties of search *)

Successors(g) == {perform_action(g, a) : a \in {b \in Actions : Legal(g, b)}}

RECURSIVE Closure(_, _)
Closure(frontier, seen) ==
    IF frontier = {} THEN seen
    ELSE LET next == UNION {Successors(g) : g \in frontier} \ seen
         IN  Closure(next, seen \cup next)

\* the snapshots that sequences of legal moves lead to from g
Reachable(g) == Closure({g}, {g})

\* exactly one Filled cell, and it is the target
Won(g, tx, ty) == {c \in Cells : At(g, c) = Filled} = {<<tx, ty>>}

Solvable == \E g \in Reachable(root) : Won(g, termX, termY)

\* C1: when a snapshot with exactly one Filled cell, at the target, can be reached from
\* the initial snapshot by legal moves, search started with an empty memo returns a
\* node whose snapshot has exactly one Filled cell, at the target
C1_Complete ==
    (pc = "done" /\ Solvable) => (ret # None /\ Won(ret[1].state, termX, termY))

\* a solution was returned after at least one call had found its snapshot in memo
C1_Witness ==
    /\ pc = "done" /\ Solvable
    /\ hits > 0
    /\ ret # None /\ Len(ret[1].history) >= 2

\* C2: when no reachable snapshot satisfies the win condition, search started with an
\* empty memo returns None; and when the initial snapshot has no legal move, exactly
\* one snapshot has been expanded when it returns
C2_NoSolutionIsNone ==
    (pc = "done" /\ ~Solvable) =>
        /\ ret = None
        /\ (valid_actions(root) = <<>> => Len(expanded) = 1)

\* C3: GameTree::default().search(empty memo, 3, 3) returns a node whose snapshot has
\* exactly one Filled cell, at (3,3), and whose history has exactly 31 moves
C3_CanonicalSolved ==
    (pc \in {"done", "panic"} /\ root = GameTree_default.state /\ termX = 3 /\ termY = 3) =>
        /\ pc = "done"
        /\ ret # None
        /\ Won(ret[1].state, 3, 3)
        /\ Len(ret[1].history) = 31

C3_Witness ==
    /\ pc = "done"
    /\ root = Grid_new /\ termX = 3 /\ termY = 3
    /\ ret # None /\ filled_count(ret[1].state) = 1

\* the snapshot a history leads to from g; ok: every move was legal where it was applied
RECURSIVE Replay(_, _)
Replay(g, history) ==
    IF history = <<>> THEN [ok |-> TRUE, state |-> g]
    ELSE LET rest == Replay(perform_action(g, Head(history)), Tail(history))
         IN  [ok |-> Legal(g, Head(history)) /\ rest.ok, state |-> rest.state]

\* the search nodes that exist: the one a call is entered on, those of the calls in
\* progress, and the one being returned
Nodes ==
    (IF pc = "call" THEN {callee} ELSE {})
    \cup {stack[i].self : i \in DOMAIN stack}
    \cup (IF pc \in {"ret", "done"} /\ ret # None THEN {ret[1]} ELSE {})
    \cup (IF pc = "deep" /\ ret.result # None THEN {ret.result[1]} ELSE {})

\* C4: the history of every search node replays from the initial snapshot through legal
\* moves only into exactly the node's snapshot, and its length is the initial filled
\* count minus the node's filled count
C4_HistoryProducesSnapshot ==
    \A n \in Nodes :
        /\ Replay(root, n.history).ok
        /\ Replay(root, n.history).state = n.state
        /\ Len(n.history) = filled_count(root) - filled_count(n.state)

C4_Witness ==
    /\ pc = "done"
    /\ ret # None /\ Len(ret[1].history) >= 3

\* C9: during one search run started with an empty memo no snapshot is expanded more
\* than once, and the number of expansions so far equals the size of memo
C9_ExpandedOnce ==
    /\ \A i, j \in DOMAIN expanded : i # j => expanded[i] # expanded[j]
    /\ Len(expanded) = Cardinality(memo)
    /\ memo = {Grid_key(expanded[i]) : i \in DOMAIN expanded}

\* a snapshot was reached a second time, by another order of moves, and not expanded again
C9_Witness ==
    /\ hits > 0
    /\ Len(expanded) >= 4
    /\ pc = "done"

\* the two formulations of search agree on what a run returns and leaves in memo
SearchAgrees ==
    pc = "done" =>
        LET r == search(GameTree_new(root, <<>>), {}, termX, termY)
        IN  ~r.panic /\ r.result = ret /\ r.memo = memo

C15_AssertNeverFails ==
    /\ pc # "panic"
    /\ \A i \in DOMAIN stack :
          stack[i].action # <<>> =>
              /\ stack[i].action \in Range(valid_actions(stack[i].self.state))
              /\ verify_action(stack[i].self.state, stack[i].action)

\* search has just applied a move three calls deep and is entering the call on the child
C15_Witness ==
    /\ pc = "call"
    /\ Len(stack) >= 3
    /\ callee.state = perform_action(Top.self.state, Top.action)

\* a snapshot satisfying the win condition has been expanded
WonExpanded == \E i \in DOMAIN expanded : Won(expanded[i], termX, termY)

\* C16: once a snapshot with exactly one Filled cell, at the target, has been expanded,
\* search expands no further snapshot and inserts nothing more into memo, and every
\* step from there on returns the node of that snapshot, the same node at every level,
\* up to the caller of the outermost search
C16_EarlyExit ==
    [][WonExpanded =>
          /\ expanded' = expanded
          /\ memo' = memo
          /\ pc' \in {"ret", "done"}
          /\ ret' # None
          /\ ret'[1].state = expanded[Len(expanded)]
          /\ Won(ret'[1].state, termX, termY)
          /\ (ret # None => ret' = ret)]_vars

\* the winning node has reached the caller of the outermost search through at least
\* two enclosing calls, and snapshots that moves lead to were left unexpanded
C16_Witness ==
    /\ pc = "done"
    /\ WonExpanded
    /\ Len(ret[1].history) >= 2
    /\ \E g \in Reachable(root) : \A i \in DOMAIN expanded : expanded[i] # g

\* no node's history is longer than bound, and no more than bound + 1 calls are in progress
DepthWithin(bound) ==
    /\ \A n \in Nodes : Len(n.history) <= bound
    /\ Len(stack) <= bound + 1

ReturnsNone == pc' = "ret" /\ ret' = None

\* the step is the return of a call entered on a snapshot that is not in memo, has no
\* legal move and does not satisfy the win condition
DeadEndReturns ==
    /\ pc = "loop" /\ pc' = "ret"
    /\ valid_actions(Top.self.state) = <<>>
    /\ ~Won(Top.self.state, termX, termY)

\* C18: a call of search returns None iff its snapshot was in memo when the call was
\* entered; a dead end returns a present node of its snapshot with no children; and
\* memo only grows
C18_NoneIffMemoHit ==
    [][/\ ReturnsNone <=> (pc = "call" /\ Grid_key(callee.state) \in memo)
       /\ DeadEndReturns =>
             /\ ret' # None
             /\ ret'[1].state = Top.self.state
             /\ DOMAIN ret'[1].next_moves = {}
       /\ memo \subseteq memo']_vars

\* a finished run in which one call returned None on a snapshot met before and another
\* returned the node of a dead end
C18_Witness ==
    /\ pc = "done"
    /\ hits > 0
    /\ \E i \in DOMAIN expanded :
          /\ valid_actions(expanded[i]) = <<>>
          /\ ~Won(expanded[i], termX, termY)

====
